---------------------------- MODULE Spec2Model ----------------------------
(***************************************************************************)
(* Wagering ledger and settlement engine of the sports-betting routes:     *)
(* the house bankroll (models/house.js), the wallets (models/wallet.js),   *)
(* the bets (models/bet.js), the events (models/event.js) and the handlers *)
(* of routes/betting.js that place and settle bets and take the Stripe     *)
(* webhook credits.                                                        *)
(*                                                                         *)
(* Money is counted in cents and odds in hundredths, so that               *)
(* amount * odds is exact: potentialWin (cents) = amount * odds / 100.     *)
(* Every NeDB operation (findOne, insert, update, find) is one atomic      *)
(* step; a handler is the sequence of its store operations, each followed  *)
(* by the synchronous code up to the next await.                           *)
(***************************************************************************)
EXTENDS Integers, Sequences, FiniteSets, TLC

(***************************************************************************)
(* Bounds of the model.                                                    *)
(***************************************************************************)
MaxFees == 2
MaxDeposits == 2
MaxBets == 2
MaxSettles == 2

(***************************************************************************)
(* Program constants.                                                      *)
(***************************************************************************)
MEMBERSHIP_FEE == 1000
MIN_BET == 5
CENTS == 100
RISK_DIVISOR == 10
COVERAGE_DIVISOR == 2

(***************************************************************************)
(* Input domains of the requests.                                          *)
(***************************************************************************)
Users == {"u1", "u2"}
EventIds == <<"e1", "e2">>
EventIdSet == {EventIds[k] : k \in 1..Len(EventIds)}
Selections == {"A", "B"}
Amounts == {500}
OddsSet == {-100, 200}
FewUsers == {"u1"}
FewOdds == {200}
DepositAmounts == {500}

NoUser == ""
NoEvent == ""
NoSel == ""

VARIABLES house, wallets, bets, events, procs, last, count, settledOk, refused,
          invoices, subscriptions, cache, creates, useMongo

\* The stores, the cache and the calls in flight of the invoicing services.
saas == <<invoices, subscriptions, cache, creates, useMongo>>

vars ==
  <<house, wallets, bets, events, procs, last, count, settledOk, refused,
    invoices, subscriptions, cache, creates, useMongo>>

-----------------------------------------------------------------------------
(***************************************************************************)
(* models/house.js                                                         *)
(***************************************************************************)
NewBankroll ==
  [balance |-> 0, totalMembershipRevenue |-> 0, totalBetsReceived |-> 0,
   totalPayouts |-> 0, profit |-> 0]

\* db.findOne({ type: 'bankroll' }): the first bankroll document.
HouseFindOne(h) == h[1]

\* initialize(): if (!doc) the bankroll document is inserted.
NeedsInsert(h) == Len(h) = 0

\* The fee is added to the balance and the profit only.
AddMembershipFeeUpdateNoRevenue(h, amount) ==
  IF Len(h) = 0 THEN h
  ELSE [h EXCEPT ![1] = [@ EXCEPT !.balance = @ + amount,
                                  !.profit = @ + amount]]

\* db.update({ type: 'bankroll' }, { $inc: ... }, {}): without multi, the
\* first matching document is updated; with none, nothing is.
AddMembershipFeeUpdate(h, amount) ==
  IF Len(h) = 0 THEN h
  ELSE [h EXCEPT ![1] = [@ EXCEPT !.balance = @ + amount,
                                  !.totalMembershipRevenue = @ + amount,
                                  !.profit = @ + amount]]

\* The stake is counted as profit too.
ReceiveBetUpdateAsProfit(h, amount) ==
  IF Len(h) = 0 THEN h
  ELSE [h EXCEPT ![1] = [@ EXCEPT !.balance = @ + amount,
                                  !.totalBetsReceived = @ + amount,
                                  !.profit = @ + amount]]

\* The update leaves totalBetsReceived out.
ReceiveBetUpdateBalanceOnly(h, amount) ==
  IF Len(h) = 0 THEN h
  ELSE [h EXCEPT ![1] = [@ EXCEPT !.balance = @ + amount]]

ReceiveBetUpdate(h, amount) ==
  IF Len(h) = 0 THEN h
  ELSE [h EXCEPT ![1] = [@ EXCEPT !.balance = @ + amount,
                                  !.totalBetsReceived = @ + amount]]

PayoutRejects(doc, amount) == doc.balance < amount

\* The payout leaves profit as it is.
PayoutUpdateNoProfit(h, amount) ==
  IF Len(h) = 0 THEN h
  ELSE [h EXCEPT ![1] = [@ EXCEPT !.balance = @ - amount,
                                  !.totalPayouts = @ + amount]]

\* The payout debits the total paid out so far instead of this amount.
PayoutUpdateRunningTotal(h, amount) ==
  IF Len(h) = 0 THEN h
  ELSE [h EXCEPT ![1] = [@ EXCEPT !.balance = @ - (h[1].totalPayouts + amount),
                                  !.totalPayouts = @ + amount,
                                  !.profit = @ - amount]]

PayoutUpdate(h, amount) ==
  IF Len(h) = 0 THEN h
  ELSE [h EXCEPT ![1] = [@ EXCEPT !.balance = @ - amount,
                                  !.totalPayouts = @ + amount,
                                  !.profit = @ - amount]]

\* Math.floor(a / b) for b # 0.
FloorDiv(a, b) == IF b > 0 THEN a \div b ELSE (0 - a) \div (0 - b)

Max(a, b) == IF a >= b THEN a ELSE b

\* The whole balance is taken as the risk instead of a tenth of it.
CalculateMaxBetWholeBalance(balance, odds) ==
  IF odds = CENTS THEN [kind |-> "Infinity", v |-> 0]
  ELSE [kind |-> "num", v |-> Max(MIN_BET, FloorDiv(balance, odds - CENTS))]

\* The risk is divided by the odds instead of by the odds less 1.
CalculateMaxBetByOdds(balance, odds) ==
  [kind |-> "num", v |-> Max(MIN_BET, FloorDiv(balance, RISK_DIVISOR * odds))]

\* calculateMaxBet, in dollars.  maxRisk / (odds - 1) is a division by zero
\* at odds 1: Infinity (or -Infinity) for a non-zero maxRisk, NaN for 0.
CalculateMaxBet(balance, odds) ==
  IF odds = CENTS
    THEN IF balance > 0 THEN [kind |-> "Infinity", v |-> 0]
         ELSE IF balance = 0 THEN [kind |-> "NaN", v |-> 0]
         ELSE [kind |-> "num", v |-> MIN_BET]
    ELSE [kind |-> "num",
          v |-> Max(MIN_BET, FloorDiv(balance, RISK_DIVISOR * (odds - CENTS)))]

\* betAmount > maxBet: false against Infinity and against NaN.
BetTooLarge(amount, maxBet) ==
  maxBet.kind = "num" /\ amount > maxBet.v * CENTS

\* The payout is not compared with the balance at all.
CoverageUnchecked(potentialPayout, balance) == FALSE

\* The payout is compared with the whole balance.
CoverageExceededWholeBalance(potentialPayout, balance) ==
  potentialPayout > balance

\* potentialPayout > house.balance * 0.5
CoverageExceeded(potentialPayout, balance) ==
  COVERAGE_DIVISOR * potentialPayout > balance

\* A total payout equal to the balance is refused too.
GateRefusesAtEquality(totalPayout, balance) == totalPayout >= balance

\* totalPayout > house.balance
GateRefuses(totalPayout, balance) == totalPayout > balance

(***************************************************************************)
(* models/wallet.js                                                        *)
(***************************************************************************)
NoWallet == [exists |-> FALSE, balance |-> 0, membershipPaid |-> FALSE]

WalletCreate(w, u) ==
  [w EXCEPT ![u] = [exists |-> TRUE, balance |-> 0, membershipPaid |-> FALSE]]

\* The update sets the balance ($set) instead of incrementing it.
AddFundsSet(w, u, amount) ==
  [w EXCEPT ![u] = [exists |-> TRUE, balance |-> amount,
                    membershipPaid |-> w[u].membershipPaid]]

\* update({ userId }, { $inc: { balance: amount } }, { upsert: true })
AddFunds(w, u, amount) ==
  IF w[u].exists THEN [w EXCEPT ![u].balance = @ + amount]
  ELSE [w EXCEPT ![u] = [exists |-> TRUE, balance |-> amount,
                         membershipPaid |-> FALSE]]

DeductRejects(doc, amount) == doc.balance < amount

\* update({ userId }, { $inc: { balance: -amount } }, {})
DeductUpdate(w, u, amount) ==
  IF w[u].exists THEN [w EXCEPT ![u].balance = @ - amount] ELSE w

\* Wallet.db.update({ userId }, { $set: { membershipPaid: true, ... } }, {})
SetMembershipPaid(w, u) ==
  IF w[u].exists THEN [w EXCEPT ![u].membershipPaid = TRUE] ELSE w

(***************************************************************************)
(* models/bet.js                                                           *)
(***************************************************************************)
NewBet(u, e, s, amount, odds, potentialWin) ==
  [userId |-> u, eventId |-> e, selection |-> s, amount |-> amount,
   odds |-> odds, potentialWin |-> potentialWin, status |-> "active",
   settledAt |-> FALSE]

BetCreate(b, bet) == Append(b, bet)

\* A settle whose $set also rewrites the stake.
BetSettleRewritesAmount(b, id, result) ==
  [b EXCEPT ![id] = [@ EXCEPT !.status = result, !.settledAt = TRUE,
                              !.amount = 0]]

\* update({ _id: id }, { $set: { status: result, settledAt: new Date() } })
BetSettle(b, id, result) ==
  [b EXCEPT ![id] = [@ EXCEPT !.status = result, !.settledAt = TRUE]]

RECURSIVE SelectIds(_, _, _, _, _)
\* The ids, in store order, of the bets of event e whose selection is
\* (won = TRUE) or is not (won = FALSE) the winner.
SelectIds(b, k, e, winner, won) ==
  IF k > Len(b) THEN <<>>
  ELSE IF b[k].eventId = e /\ ((b[k].selection = winner) = won)
    THEN <<k>> \o SelectIds(b, k + 1, e, winner, won)
    ELSE SelectIds(b, k + 1, e, winner, won)

RECURSIVE SumPotentialWin(_, _, _)
SumPotentialWin(b, ids, k) ==
  IF k > Len(ids) THEN 0
  ELSE b[ids[k]].potentialWin + SumPotentialWin(b, ids, k + 1)

(***************************************************************************)
(* models/event.js                                                         *)
(***************************************************************************)
NoEventDoc == [exists |-> FALSE, status |-> "", winner |-> NoSel]

EventCreate(ev, e) ==
  [ev EXCEPT ![e] = [exists |-> TRUE, status |-> "upcoming", winner |-> NoSel]]

\* Event.update(eventId, { status: 'finished', winner })
EventFinish(ev, e, winner) ==
  IF ev[e].exists
    THEN [ev EXCEPT ![e] = [@ EXCEPT !.status = "finished", !.winner = winner]]
    ELSE ev

-----------------------------------------------------------------------------
(***************************************************************************)
(* A request in progress: its arguments, its locals and the place it has   *)
(* reached.  pc names the store operation the handler performs next; for   *)
(* an operation of the house, ph is the phase within it: "init" and        *)
(* "insert" are the findOne and the insert of initialize(), "op" is the    *)
(* operation itself and "update" the update that follows payout's findOne. *)
(***************************************************************************)
HouseSites == {"max", "cov", "recv", "resp", "gate", "pay", "final", "fee"}

IdleFrame ==
  [kind |-> "idle", pc |-> "done", ph |-> "", res |-> "",
   user |-> NoUser, event |-> NoEvent, sel |-> NoSel,
   amount |-> 0, odds |-> 0, potentialWin |-> 0,
   maxBet |-> [kind |-> "none", v |-> 0],
   winners |-> <<>>, losers |-> <<>>, i |-> 1, j |-> 1,
   totalPayout |-> 0, before |-> 0, after |-> 0, ops |-> 0, k |-> 1]

Goto(f, pc) ==
  [f EXCEPT !.pc = pc, !.ph = IF pc \in HouseSites THEN "init" ELSE ""]

Finish(f, res) == [f EXCEPT !.pc = "done", !.ph = "", !.res = res]

St(db, f) == [db |-> db, f |-> f]

PlaceFrame(u, e, s, amount, odds) ==
  [IdleFrame EXCEPT !.kind = "place", !.pc = "wfind", !.user = u, !.event = e,
                    !.sel = s, !.amount = amount, !.odds = odds]

MembershipFrame(u) ==
  [IdleFrame EXCEPT !.kind = "membership", !.pc = "mfind", !.user = u]

DepositFrame(u, amount) ==
  [IdleFrame EXCEPT !.kind = "deposit", !.pc = "dep", !.user = u,
                    !.amount = amount]

CreateEventFrame(e) ==
  [IdleFrame EXCEPT !.kind = "create", !.pc = "ecreate", !.event = e]

(***************************************************************************)
(* POST /api/bets/place                                                    *)
(***************************************************************************)
\* The check of the membership is left out.
PlaceAfterWalletNoMembership(f, doc) ==
  IF f.amount = 0 \/ f.odds = 0 THEN Finish(f, "MissingFields")
  ELSE Goto([f EXCEPT !.potentialWin = (f.amount * f.odds) \div CENTS], "max")

\* Lines 71-83: the membership check, the required fields, potentialWin.
PlaceAfterWallet(f, doc) ==
  IF ~doc.membershipPaid THEN Finish(f, "MembershipNotActive")
  ELSE IF f.amount = 0 \/ f.odds = 0 THEN Finish(f, "MissingFields")
  ELSE Goto([f EXCEPT !.potentialWin = (f.amount * f.odds) \div CENTS], "max")

\* The house is credited before the wallet is debited.
PlaceTailCreditFirst == <<"recv", "dfind", "bcreate", "resp">>

\* Lines 121-145, once the checks have passed: Wallet.deductFunds (122),
\* House.receiveBet (125), Bet.create (128) and the response with the house
\* balance (144), each named by its first store operation.
PlaceTail == <<"dfind", "recv", "bcreate", "resp">>

\* The frame placed at the statement of PlaceTail that follows statement pc.
AfterPlace(f, pc) ==
  LET k == CHOOSE n \in 1..Len(PlaceTail) : PlaceTail[n] = pc
  IN Goto(f, PlaceTail[k + 1])

\* The check of the minimum bet is left out.
PlaceAfterEventNoMinimum(f, ev) ==
  IF ~ev.exists THEN Finish(f, "EventNotFound")
  ELSE IF ev.status # "upcoming" THEN Finish(f, "EventNotOpen")
  ELSE Goto(f, PlaceTail[1])

\* Lines 108-119: the event must exist and be upcoming; the minimum bet.
PlaceAfterEvent(f, ev) ==
  IF ~ev.exists THEN Finish(f, "EventNotFound")
  ELSE IF ev.status # "upcoming" THEN Finish(f, "EventNotOpen")
  ELSE IF f.amount < MIN_BET * CENTS THEN Finish(f, "MinimumBetViolation")
  ELSE Goto(f, PlaceTail[1])

\* deductFunds after findByUserId resolved with the wallet.
DeductAfterFind(f, doc) ==
  IF DeductRejects(doc, f.amount) THEN Finish(f, "InsufficientFunds")
  ELSE Goto(f, "dupd")

PlaceStep(db, f) ==
  CASE f.pc = "wfind" ->
         IF db.wallets[f.user].exists
           THEN St(db, PlaceAfterWallet(f, db.wallets[f.user]))
           ELSE St(db, Goto(f, "wcreate"))
    [] f.pc = "wcreate" ->
         IF db.wallets[f.user].exists
           THEN St(db, Finish(f, "StoreError"))
           ELSE St([db EXCEPT !.wallets = WalletCreate(@, f.user)],
                   PlaceAfterWallet(f, WalletCreate(db.wallets, f.user)[f.user]))
    [] f.pc = "max" ->
         LET g == [f EXCEPT !.maxBet =
                     CalculateMaxBet(HouseFindOne(db.house).balance, f.odds)]
         IN IF BetTooLarge(g.amount, g.maxBet)
              THEN St(db, Finish(g, "BetTooLarge"))
              ELSE St(db, Goto(g, "cov"))
    [] f.pc = "cov" ->
         IF CoverageExceeded(f.potentialWin, HouseFindOne(db.house).balance)
           THEN St(db, Finish(f, "InsufficientHouseCoverage"))
           ELSE St(db, Goto(f, "efind"))
    [] f.pc = "efind" -> St(db, PlaceAfterEvent(f, db.events[f.event]))
    [] f.pc = "dfind" ->
         IF db.wallets[f.user].exists
           THEN St(db, DeductAfterFind(f, db.wallets[f.user]))
           ELSE St(db, Goto(f, "dcreate"))
    [] f.pc = "dcreate" ->
         IF db.wallets[f.user].exists
           THEN St(db, Finish(f, "StoreError"))
           ELSE St([db EXCEPT !.wallets = WalletCreate(@, f.user)],
                   DeductAfterFind(f, WalletCreate(db.wallets, f.user)[f.user]))
    [] f.pc = "dupd" ->
         St([db EXCEPT !.wallets = DeductUpdate(@, f.user, f.amount)],
            AfterPlace(f, "dfind"))
    [] f.pc = "recv" ->
         St([db EXCEPT !.house = ReceiveBetUpdate(@, f.amount)],
            AfterPlace(f, "recv"))
    [] f.pc = "bcreate" ->
         St([db EXCEPT !.bets =
               BetCreate(@, NewBet(f.user, f.event, f.sel, f.amount, f.odds,
                                   f.potentialWin))],
            AfterPlace(f, "bcreate"))
    [] f.pc = "resp" ->
         St(db, Finish([f EXCEPT !.after = HouseFindOne(db.house).balance], "ok"))

(***************************************************************************)
(* POST /api/admin/events/:id/settle                                       *)
(***************************************************************************)
\* The check of the house balance made after the two loops.
SettlePlanGateLast ==
  <<"eupd", "bfind", "winners", "losers", "gate", "final">>

\* The statements of the handler in the order of the source: the event
\* update (line 382), the read of the bets (385), the check of the house
\* balance (402), the loop over the winners (414), the loop over the losers
\* (421) and the final read of the house (426).
SettlePlan == <<"eupd", "bfind", "gate", "winners", "losers", "final">>

RECURSIVE Enter(_, _)
\* The frame placed at the first store operation of statement k or, when
\* that is a loop with nothing left to do, of the statements after it.
Enter(f, k) ==
  CASE SettlePlan[k] = "winners" ->
         IF f.i <= Len(f.winners) THEN Goto([f EXCEPT !.k = k], "bsettle")
         ELSE Enter(f, k + 1)
    [] SettlePlan[k] = "losers" ->
         IF f.j <= Len(f.losers) THEN Goto([f EXCEPT !.k = k], "lsettle")
         ELSE Enter(f, k + 1)
    [] OTHER -> Goto([f EXCEPT !.k = k], SettlePlan[k])

SettleFrame(e, winner) ==
  Enter([IdleFrame EXCEPT !.kind = "settle", !.event = e, !.sel = winner], 1)

SettleStep(db, f) ==
  CASE f.pc = "eupd" ->
         St([db EXCEPT !.events = EventFinish(@, f.event, f.sel)],
            Enter(f, f.k + 1))
    [] f.pc = "bfind" ->
         LET w == SelectIds(db.bets, 1, f.event, f.sel, TRUE)
             l == SelectIds(db.bets, 1, f.event, f.sel, FALSE)
         IN St(db, Enter([f EXCEPT !.winners = w, !.losers = l,
                                   !.totalPayout = SumPotentialWin(db.bets, w, 1)],
                         f.k + 1))
    [] f.pc = "gate" ->
         LET doc == HouseFindOne(db.house)
             g == [f EXCEPT !.before = doc.balance]
         IN IF GateRefuses(f.totalPayout, doc.balance)
              THEN St(db, Finish(g, "InsufficientHouseFunds"))
              ELSE St(db, Enter(g, f.k + 1))
    [] f.pc = "bsettle" ->
         St([db EXCEPT !.bets = BetSettle(@, f.winners[f.i], "won")],
            Goto(f, "wadd"))
    [] f.pc = "wadd" ->
         LET bet == db.bets[f.winners[f.i]]
         IN St([db EXCEPT !.wallets = AddFunds(@, bet.userId, bet.potentialWin)],
               Goto(f, "pay"))
    [] f.pc = "pay" /\ f.ph = "op" ->
         IF PayoutRejects(HouseFindOne(db.house),
                          db.bets[f.winners[f.i]].potentialWin)
           THEN St(db, Finish(f, "PayoutRejected"))
           ELSE St(db, [f EXCEPT !.ph = "update"])
    [] f.pc = "pay" /\ f.ph = "update" ->
         St([db EXCEPT !.house =
               PayoutUpdate(@, db.bets[f.winners[f.i]].potentialWin)],
            Enter([f EXCEPT !.i = @ + 1], f.k))
    [] f.pc = "lsettle" ->
         St([db EXCEPT !.bets = BetSettle(@, f.losers[f.j], "lost")],
            Enter([f EXCEPT !.j = @ + 1], f.k))
    [] f.pc = "final" ->
         St(db, Finish([f EXCEPT !.after = HouseFindOne(db.house).balance], "ok"))

(***************************************************************************)
(* POST /api/webhook/stripe and POST /api/admin/events/create              *)
(***************************************************************************)
WebhookStep(db, f) ==
  CASE f.pc = "mfind" ->
         IF db.wallets[f.user].exists THEN St(db, Goto(f, "mset"))
         ELSE St(db, Goto(f, "mcreate"))
    [] f.pc = "mcreate" ->
         IF db.wallets[f.user].exists THEN St(db, Finish(f, "StoreError"))
         ELSE St([db EXCEPT !.wallets = WalletCreate(@, f.user)], Goto(f, "mset"))
    [] f.pc = "mset" ->
         St([db EXCEPT !.wallets = SetMembershipPaid(@, f.user)], Goto(f, "fee"))
    [] f.pc = "fee" ->
         St([db EXCEPT !.house = AddMembershipFeeUpdate(@, MEMBERSHIP_FEE)],
            Finish(f, "ok"))
    [] f.pc = "dep" ->
         St([db EXCEPT !.wallets = AddFunds(@, f.user, f.amount)],
            Finish(f, "ok"))
    [] f.pc = "ecreate" ->
         St([db EXCEPT !.events = EventCreate(@, f.event)], Finish(f, "ok"))

(***************************************************************************)
(* A method of the house or of the wallet model called on its own:         *)
(* House.payout, House.receiveBet, House.addMembershipFee and              *)
(* Wallet.getBalance.                                                      *)
(***************************************************************************)
CallKinds == {"payout", "receiveBet", "addMembershipFee", "getBalance"}

\* The first store operation of each method of the house.
CallSite(kind) ==
  CASE kind = "payout" -> "pay"
    [] kind = "receiveBet" -> "recv"
    [] kind = "addMembershipFee" -> "fee"

HouseCallFrame(kind, amount) ==
  Goto([IdleFrame EXCEPT !.kind = kind, !.amount = amount], CallSite(kind))

GetBalanceFrame(u) ==
  [IdleFrame EXCEPT !.kind = "getBalance", !.pc = "gfind", !.user = u]

CallStep(db, f) ==
  CASE f.pc = "pay" /\ f.ph = "op" ->
         IF PayoutRejects(HouseFindOne(db.house), f.amount)
           THEN St(db, Finish(f, "PayoutRejected"))
           ELSE St(db, [f EXCEPT !.ph = "update"])
    [] f.pc = "pay" /\ f.ph = "update" ->
         St([db EXCEPT !.house = PayoutUpdate(@, f.amount)], Finish(f, "ok"))
    [] f.pc = "recv" ->
         St([db EXCEPT !.house = ReceiveBetUpdate(@, f.amount)], Finish(f, "ok"))
    [] f.pc = "fee" ->
         St([db EXCEPT !.house = AddMembershipFeeUpdate(@, f.amount)],
            Finish(f, "ok"))
    [] f.pc = "gfind" ->
         IF db.wallets[f.user].exists
           THEN St(db, Finish([f EXCEPT !.after = db.wallets[f.user].balance],
                              "ok"))
           ELSE St(db, Goto(f, "gcreate"))
    [] f.pc = "gcreate" ->
         IF db.wallets[f.user].exists
           THEN St(db, Finish(f, "StoreError"))
           ELSE St([db EXCEPT !.wallets = WalletCreate(@, f.user)],
                   Finish([f EXCEPT !.after =
                             WalletCreate(db.wallets, f.user)[f.user].balance],
                          "ok"))

(***************************************************************************)
(* One store operation of a request.  failAt is the number of the store    *)
(* operation of this request that the store fails (0: none): the promise   *)
(* rejects and the handler's catch answers 500 without undoing anything.   *)
(***************************************************************************)
Step(db, f0, failAt) ==
  LET f == [f0 EXCEPT !.ops = @ + 1] IN
  IF f.ops = failAt THEN St(db, Finish(f, "StoreError"))
  ELSE IF f.ph = "init"
    THEN St(db, [f EXCEPT !.ph = IF NeedsInsert(db.house) THEN "insert" ELSE "op"])
  ELSE IF f.ph = "insert"
    THEN St([db EXCEPT !.house = Append(@, NewBankroll)], [f EXCEPT !.ph = "op"])
  ELSE IF f.kind = "place" THEN PlaceStep(db, f)
  ELSE IF f.kind = "settle" THEN SettleStep(db, f)
  ELSE IF f.kind \in CallKinds THEN CallStep(db, f)
  ELSE WebhookStep(db, f)

RECURSIVE Run(_, _, _)
\* The request run to completion with no other request interleaved.
Run(db, f, failAt) ==
  IF f.pc = "done" THEN St(db, f)
  ELSE LET s == Step(db, f, failAt) IN Run(s.db, s.f, failAt)

-----------------------------------------------------------------------------
(***************************************************************************)
(* lib/state-machines.js                                                   *)
(***************************************************************************)
InvoiceStates ==
  {"draft", "unpaid", "paid", "overdue", "cancelled", "refunded"}

\* InvoiceStateMachine.TRANSITIONS
InvoiceTransitions ==
  [s \in InvoiceStates |->
     CASE s = "draft" -> {"unpaid", "cancelled"}
       [] s = "unpaid" -> {"paid", "overdue", "cancelled"}
       [] s = "overdue" -> {"paid", "cancelled"}
       [] s = "paid" -> {"refunded"}
       [] OTHER -> {}]

SubscriptionStates ==
  {"trial", "active", "paused", "past_due", "cancelled", "expired"}

\* SubscriptionStateMachine.TRANSITIONS
SubscriptionTransitions ==
  [s \in SubscriptionStates |->
     CASE s = "trial" -> {"active", "cancelled", "expired"}
       [] s = "active" -> {"paused", "past_due", "cancelled"}
       [] s = "paused" -> {"active", "cancelled"}
       [] s = "past_due" -> {"active", "cancelled"}
       [] OTHER -> {}]

\* canTransitionTo of a machine made from state
CanTransitionTo(transitions, state, newState) ==
  newState \in transitions[state]

\* InvoiceStateMachine.canBePaid
CanBePaid(state) == state \in {"unpaid", "overdue"}

\* SubscriptionStateMachine.canCharge
CanCharge(state) == state \in {"trial", "active"}

(***************************************************************************)
(* models-improved/invoice.js over lib/database.js.  An invoice number is  *)
(* the string of its decimal digits; the prefix 'INV-', the same in every  *)
(* number, is left out.  due says that the invoice has a dueDate in the    *)
(* past.                                                                   *)
(***************************************************************************)
MaxInvoices == 2

FIRST_INVOICE_NUMBER == 1001
PAD_LENGTH == 4

RECURSIVE Digits(_)
\* String(n)
Digits(n) == IF n < 10 THEN <<n>> ELSE Append(Digits(n \div 10), n % 10)

RECURSIVE PadStart(_, _)
\* padStart(len, '0')
PadStart(ds, len) == IF Len(ds) >= len THEN ds ELSE PadStart(<<0>> \o ds, len)

FormatInvoiceNumber(n) == PadStart(Digits(n), PAD_LENGTH)

RECURSIVE ParseInt(_, _)
\* parseInt(ds, 10), acc the value of the digits already read
ParseInt(ds, acc) ==
  IF Len(ds) = 0 THEN acc ELSE ParseInt(Tail(ds), 10 * acc + Head(ds))

RECURSIVE StringLess(_, _)
\* a < b as strings
StringLess(a, b) ==
  IF Len(b) = 0 THEN FALSE
  ELSE IF Len(a) = 0 THEN TRUE
  ELSE IF Head(a) # Head(b) THEN Head(a) < Head(b)
  ELSE StringLess(Tail(a), Tail(b))

\* find({ userId }, { sort: { invoiceNumber: -1 }, limit: 1 }): the ids of
\* the user's invoices no other invoice of the user sorts after.
LastInvoices(inv, u) ==
  {k \in 1..Len(inv) :
     /\ inv[k].userId = u
     /\ \A m \in 1..Len(inv) :
          inv[m].userId = u =>
            ~StringLess(inv[k].invoiceNumber, inv[m].invoiceNumber)}

\* _generateInvoiceNumber
GenerateInvoiceNumber(inv, u) ==
  IF LastInvoices(inv, u) = {} THEN FormatInvoiceNumber(FIRST_INVOICE_NUMBER)
  ELSE LET k == CHOOSE k \in LastInvoices(inv, u) : TRUE
       IN FormatInvoiceNumber(ParseInt(inv[k].invoiceNumber, 0) + 1)

\* Under MongoDB the unique index on { userId, invoiceNumber } refuses an
\* insert with a duplicate key error.  createIndex under NeDB makes its
\* index on the first key of the specification only, userId, where
\* getNeDBStore already made an index that is not unique: no insert is
\* refused.
InsertRefused(mongo, inv, u, number) ==
  /\ mongo
  /\ \E k \in 1..Len(inv) : inv[k].userId = u /\ inv[k].invoiceNumber = number

NewInvoice(u, number, status, due) ==
  [userId |-> u, invoiceNumber |-> number, status |-> status, due |-> due]

\* update(id, { status, ... })
InvoiceUpdate(inv, id, status) == [inv EXCEPT ![id].status = status]

(***************************************************************************)
(* models-improved/subscription.js.  stripe says that the record has a     *)
(* stripeSubscriptionId, reactivatedAt that it has a reactivatedAt.        *)
(***************************************************************************)
NoSubscription ==
  [exists |-> FALSE, plan |-> "", status |-> "", stripe |-> FALSE,
   reactivatedAt |-> FALSE]

PlanHierarchy == <<"free", "starter", "pro">>

\* findByUserId: a user with no subscription gets the free plan.
SubscriptionFind(subs, u) ==
  IF subs[u].exists THEN subs
  ELSE [subs EXCEPT ![u] = [exists |-> TRUE, plan |-> "free",
                            status |-> "active", stripe |-> FALSE,
                            reactivatedAt |-> FALSE]]

SubscriptionSetStatus(subs, u, status) ==
  [SubscriptionFind(subs, u) EXCEPT ![u].status = status]

SubscriptionUpgrade(subs, u, plan, stripe) ==
  [SubscriptionFind(subs, u) EXCEPT ![u].plan = plan, ![u].status = "active",
                                    ![u].stripe = stripe]

SubscriptionDowngrade(subs, u) ==
  [SubscriptionFind(subs, u) EXCEPT ![u].plan = "free",
                                    ![u].status = "active",
                                    ![u].stripe = FALSE]

SubscriptionCancel(subs, u) == SubscriptionSetStatus(subs, u, "cancelled")

SubscriptionReactivate(subs, u) ==
  [SubscriptionSetStatus(subs, u, "active") EXCEPT ![u].reactivatedAt = TRUE]

(***************************************************************************)
(* lib/cache.js: the entries of the invoices, of the invoice lists and of  *)
(* the subscriptions.                                                      *)
(***************************************************************************)
EmptyCache ==
  [invoice |-> [k \in 1..MaxInvoices |-> [hit |-> FALSE, status |-> ""]],
   invoices |-> [u \in Users |-> [hit |-> FALSE, docs |-> <<>>]],
   subscription |-> [u \in Users |-> [hit |-> FALSE, doc |-> NoSubscription]]]

\* CacheInvalidation.invalidateInvoices
InvalidateInvoices(c, inv, u) ==
  [c EXCEPT !.invoice = [k \in 1..MaxInvoices |->
                           IF k <= Len(inv) /\ inv[k].userId = u
                             THEN EmptyCache.invoice[k] ELSE c.invoice[k]],
            !.invoices[u] = EmptyCache.invoices[u]]

\* CacheInvalidation.invalidateSubscriptions
InvalidateSubscriptions(c, u) ==
  [c EXCEPT !.subscription[u] = EmptyCache.subscription[u]]

IdleCreate ==
  [pc |-> "idle", user |-> NoUser, number |-> <<>>, status |-> "",
   due |-> FALSE]

-----------------------------------------------------------------------------
(***************************************************************************)
(* The state: the four stores, the requests in progress (procs), the last  *)
(* request that ran to completion with the stores as they were when it     *)
(* started (last), the number of webhook deliveries and settle requests so *)
(* far (count), and the events on which a settle request has answered      *)
(* 'Bets settled successfully' (settledOk) and the settle requests, event   *)
(* and winner, answered 'INSUFFICIENT HOUSE FUNDS' (refused).              *)
(***************************************************************************)
Slots == {1, 2}

DB == [house |-> house, wallets |-> wallets, bets |-> bets, events |-> events]

EmptyDB ==
  [house |-> <<>>, wallets |-> [u \in Users |-> NoWallet], bets |-> <<>>,
   events |-> [e \in EventIdSet |-> NoEventDoc]]

\* The invoicing services before their first call, on MongoDB or on NeDB.
InitSaas(mongo) ==
  /\ invoices = <<>>
  /\ subscriptions = [u \in Users |-> NoSubscription]
  /\ cache = EmptyCache
  /\ creates = [s \in Slots |-> IdleCreate]
  /\ useMongo = mongo

InitLedger ==
  /\ house = EmptyDB.house
  /\ wallets = EmptyDB.wallets
  /\ bets = EmptyDB.bets
  /\ events = EmptyDB.events
  /\ procs = [s \in Slots |-> IdleFrame]
  /\ last = [f |-> IdleFrame, pre |-> EmptyDB, again |-> FALSE,
             retry |-> FALSE]
  /\ count = [fee |-> 0, dep |-> 0, settle |-> 0, conc |-> 0, fail |-> 0,
              calls |-> 0]
  /\ settledOk = {}
  /\ refused = {}

\* USE_MONGODB is not set: the stores are NeDB files.
Init == InitLedger /\ InitSaas(FALSE)

InitAnyStore == InitLedger /\ \E mongo \in BOOLEAN : InitSaas(mongo)

AllIdle == \A s \in Slots : procs[s].kind = "idle"

SetDB(db) ==
  /\ house' = db.house
  /\ wallets' = db.wallets
  /\ bets' = db.bets
  /\ events' = db.events

\* The events with a successful settle, once request f has answered.
Settled(f) ==
  IF f.kind = "settle" /\ f.res = "ok" /\ events[f.event].exists
    THEN settledOk \cup {f.event}
  ELSE settledOk

\* The refused settle requests, once request f has answered.
Refused(f) ==
  IF f.kind = "settle" /\ f.res = "InsufficientHouseFunds"
    THEN refused \cup {<<f.event, f.sel>>}
  ELSE refused

\* A whole request, from its first store operation to its response.
Serve(f, failAt) ==
  \E r \in {Run(DB, f, failAt)} :
     /\ SetDB(r.db)
     /\ last' = [f |-> r.f, pre |-> DB, again |-> f.event \in settledOk,
                  retry |-> <<f.event, f.sel>> \in refused]
     /\ settledOk' = Settled(r.f)
     /\ refused' = Refused(r.f)
     /\ UNCHANGED <<procs, saas>>

(***************************************************************************)
(* The requests, run one after the other.  in gives the sets the inputs    *)
(* are drawn from and the number of requests of each kind.                 *)
(***************************************************************************)
SeqInputs ==
  [users |-> Users, selections |-> Selections, amounts |-> Amounts,
   odds |-> OddsSet, deposits |-> DepositAmounts,
   maxFees |-> MaxFees, maxDeposits |-> MaxDeposits, maxBets |-> MaxBets,
   maxSettles |-> MaxSettles]

PlaceBet(in, u, e, s, amount, odds) ==
  /\ AllIdle
  /\ Len(bets) < in.maxBets
  /\ Serve(PlaceFrame(u, e, s, amount, odds), 0)
  /\ UNCHANGED count

Settle(in, e, winner) ==
  /\ AllIdle
  /\ count.settle < in.maxSettles
  /\ Serve(SettleFrame(e, winner), 0)
  /\ count' = [count EXCEPT !.settle = @ + 1]

\* checkout.session.completed with metadata.type = 'membership'.
MembershipPaid(in, u) ==
  /\ AllIdle
  /\ count.fee < in.maxFees
  /\ Serve(MembershipFrame(u), 0)
  /\ count' = [count EXCEPT !.fee = @ + 1]

\* checkout.session.completed with metadata.type = 'deposit'.  The session
\* was made by /api/wallet/create-checkout-session, which wants a paid
\* membership and an amount of at least 5.
Deposit(in, u, amount) ==
  /\ AllIdle
  /\ count.dep < in.maxDeposits
  /\ wallets[u].membershipPaid
  /\ amount >= MIN_BET * CENTS
  /\ Serve(DepositFrame(u, amount), 0)
  /\ count' = [count EXCEPT !.dep = @ + 1]

\* The store gives the new event the next unused id.
CreateEvent ==
  /\ AllIdle
  /\ \E k \in 1..Len(EventIds) :
       /\ ~events[EventIds[k]].exists
       /\ \A m \in 1..(k - 1) : events[EventIds[m]].exists
       /\ Serve(CreateEventFrame(EventIds[k]), 0)
  /\ UNCHANGED count

NextOver(in) ==
  \/ \E u \in in.users, e \in EventIdSet, s \in in.selections,
        amount \in in.amounts, odds \in in.odds :
        PlaceBet(in, u, e, s, amount, odds)
  \/ \E e \in EventIdSet, winner \in in.selections : Settle(in, e, winner)
  \/ \E u \in in.users : MembershipPaid(in, u)
  \/ \E u \in in.users, amount \in in.deposits : Deposit(in, u, amount)
  \/ CreateEvent

Next == NextOver(SeqInputs)

Spec == Init /\ [][Next]_vars

(***************************************************************************)
(* The same handlers with a store that may fail: the store operation       *)
(* number failAt of a settle request is answered with an error.            *)
(***************************************************************************)
MaxOps == 12
MaxFailures == 1

FailInputs == [SeqInputs EXCEPT !.users = FewUsers, !.odds = FewOdds]

SettleStoreFailure(in, e, winner, failAt) ==
  /\ AllIdle
  /\ count.settle < in.maxSettles
  /\ count.fail < MaxFailures
  /\ Serve(SettleFrame(e, winner), failAt)
  /\ last'.f.res = "StoreError"
  /\ count' = [count EXCEPT !.settle = @ + 1, !.fail = @ + 1]

NextFail ==
  \/ NextOver(FailInputs)
  \/ \E e \in EventIdSet, winner \in Selections, failAt \in 1..MaxOps :
        SettleStoreFailure(FailInputs, e, winner, failAt)

SpecFail == Init /\ [][NextFail]_vars

(***************************************************************************)
(* Concurrent requests: each slot holds one request, which advances one    *)
(* store operation at a time; the operations of the two requests           *)
(* interleave in any order.  Between them, while no request is in          *)
(* progress, requests run one after the other as in Spec.                  *)
(***************************************************************************)
MaxConc == 2
ConcMaxFees == 3
ConcMaxDeposits == 1
ConcMaxBets == 4
ConcMaxSettles == 2

ConcInputs ==
  [users |-> FewUsers, selections |-> {"A"}, amounts |-> Amounts,
   odds |-> {300}, deposits |-> {2000},
   maxFees |-> ConcMaxFees, maxDeposits |-> ConcMaxDeposits,
   maxBets |-> ConcMaxBets, maxSettles |-> ConcMaxSettles]

StartPlace(in, p, u, e, s, amount, odds) ==
  /\ procs[p].kind = "idle"
  /\ \A q \in Slots : q < p => procs[q].kind # "idle"
  /\ count.conc < MaxConc
  /\ Len(bets) < in.maxBets
  /\ procs' = [procs EXCEPT ![p] = PlaceFrame(u, e, s, amount, odds)]
  /\ count' = [count EXCEPT !.conc = @ + 1]
  /\ UNCHANGED <<house, wallets, bets, events, last, settledOk, refused>>
  /\ UNCHANGED saas

StartSettle(in, p, e, winner) ==
  /\ procs[p].kind = "idle"
  /\ \A q \in Slots : q < p => procs[q].kind # "idle"
  /\ count.conc < MaxConc
  /\ count.settle < in.maxSettles
  /\ procs' = [procs EXCEPT ![p] = SettleFrame(e, winner)]
  /\ count' = [count EXCEPT !.settle = @ + 1, !.conc = @ + 1]
  /\ UNCHANGED <<house, wallets, bets, events, last, settledOk, refused>>
  /\ UNCHANGED saas

\* The next store operation of the request in slot p.
StepProc(p) ==
  /\ procs[p].pc # "done"
  /\ \E r \in {Step(DB, procs[p], 0)} :
       /\ SetDB(r.db)
       /\ procs' = [procs EXCEPT ![p] = r.f]
       /\ settledOk' = Settled(r.f)
       /\ refused' = Refused(r.f)
  /\ UNCHANGED <<last, count, saas>>

\* The response is sent and the slot is free again.
Return(p) ==
  /\ procs[p].kind # "idle"
  /\ procs[p].pc = "done"
  /\ procs' = [procs EXCEPT ![p] = IdleFrame]
  /\ UNCHANGED <<house, wallets, bets, events, last, count, settledOk,
                 refused>>
  /\ UNCHANGED saas

NextConcOver(in) ==
  \/ \E p \in Slots, u \in in.users, e \in EventIdSet, s \in in.selections,
        amount \in in.amounts, odds \in in.odds :
        StartPlace(in, p, u, e, s, amount, odds)
  \/ \E p \in Slots, e \in EventIdSet, winner \in in.selections :
        StartSettle(in, p, e, winner)
  \/ \E p \in Slots : StepProc(p)
  \/ \E p \in Slots : Return(p)
  \/ NextOver(in)

NextConc == NextConcOver(ConcInputs)

SpecConc == Init /\ [][NextConc]_vars

(***************************************************************************)
(* The store may fail a store operation of a bet placement.                *)
(***************************************************************************)
PlaceStoreFailure(in, u, e, s, amount, odds, failAt) ==
  /\ AllIdle
  /\ Len(bets) < in.maxBets
  /\ count.fail < MaxFailures
  /\ Serve(PlaceFrame(u, e, s, amount, odds), failAt)
  /\ last'.f.res = "StoreError"
  /\ count' = [count EXCEPT !.fail = @ + 1]

NextPlaceFail ==
  \/ NextOver(FailInputs)
  \/ \E u \in FailInputs.users, e \in EventIdSet, s \in FailInputs.selections,
        amount \in FailInputs.amounts, odds \in FailInputs.odds,
        failAt \in 1..MaxOps :
        PlaceStoreFailure(FailInputs, u, e, s, amount, odds, failAt)

SpecPlaceFail == Init /\ [][NextPlaceFail]_vars

(***************************************************************************)
(* Requests run one after the other, with the stakes and the odds that     *)
(* meet each check of the placement: a stake under the minimum, a stake    *)
(* over the cap, odds of 1.                                                *)
(***************************************************************************)
AdmitMaxFees == 3
AdmitMaxDeposits == 1
AdmitMaxBets == 2
AdmitMaxSettles == 1

AdmitAmounts == {300, 500, 1000}
AdmitOdds == {100, 150, 200}

AdmitInputs ==
  [users |-> FewUsers, selections |-> {"A"}, amounts |-> AdmitAmounts,
   odds |-> AdmitOdds, deposits |-> {2000},
   maxFees |-> AdmitMaxFees, maxDeposits |-> AdmitMaxDeposits,
   maxBets |-> AdmitMaxBets, maxSettles |-> AdmitMaxSettles]

NextAdmit == NextOver(AdmitInputs)

SpecAdmit == Init /\ [][NextAdmit]_vars

(***************************************************************************)
(* Requests run one after the other, with enough bets at odds 3 on two     *)
(* events for the payouts of one event to leave the house short of the     *)
(* payouts of the other.                                                   *)
(***************************************************************************)
NextDrain == NextOver(ConcInputs)

SpecDrain == Init /\ [][NextDrain]_vars

(***************************************************************************)
(* Requests run one after the other, with the membership fees that bring   *)
(* the house to a balance of 30 and of 100 and stakes of 5, 10 and 15 at   *)
(* odds 2.                                                                 *)
(***************************************************************************)
ScenMaxFees == 10
ScenMaxDeposits == 1
ScenMaxBets == 2
ScenMaxSettles == 1

ScenAmounts == {500, 1000, 1500}

ScenInputs ==
  [users |-> FewUsers, selections |-> {"A"}, amounts |-> ScenAmounts,
   odds |-> FewOdds, deposits |-> {2000},
   maxFees |-> ScenMaxFees, maxDeposits |-> ScenMaxDeposits,
   maxBets |-> ScenMaxBets, maxSettles |-> ScenMaxSettles]

NextScen == NextOver(ScenInputs)

SpecScen == Init /\ [][NextScen]_vars

(***************************************************************************)
(* The first week of the operator's guide: one or two membership fees of   *)
(* 10, a deposit of 50 and stakes of 5 and 20 at odds 2, requests one      *)
(* after the other.                                                        *)
(***************************************************************************)
BootMaxFees == 2
BootMaxDeposits == 1
BootMaxBets == 2
BootMaxSettles == 1

BootAmounts == {500, 2000}

BootInputs ==
  [users |-> FewUsers, selections |-> Selections, amounts |-> BootAmounts,
   odds |-> FewOdds, deposits |-> {5000},
   maxFees |-> BootMaxFees, maxDeposits |-> BootMaxDeposits,
   maxBets |-> BootMaxBets, maxSettles |-> BootMaxSettles]

NextBoot == NextOver(BootInputs)

SpecBoot == Init /\ [][NextBoot]_vars

(***************************************************************************)
(* Requests run one after the other as in SpecDrain, with one membership   *)
(* fee and one settle request more: after a refused settle request the     *)
(* house grows and the request is made again.                              *)
(***************************************************************************)
RetryMaxFees == 4
RetryMaxSettles == 3

RetryInputs ==
  [ConcInputs EXCEPT !.maxFees = RetryMaxFees, !.maxSettles = RetryMaxSettles]

NextRetry == NextOver(RetryInputs)

SpecRetry == Init /\ [][NextRetry]_vars

(***************************************************************************)
(* Stripe delivers a checkout.session.completed event again: the webhook   *)
(* handler runs a second time on the event of the last delivery.           *)
(***************************************************************************)
Redeliver ==
  /\ AllIdle
  /\ last.f.kind \in {"membership", "deposit"}
  /\ ~last.again
  /\ \E r \in {Run(DB, IF last.f.kind = "membership"
                          THEN MembershipFrame(last.f.user)
                          ELSE DepositFrame(last.f.user, last.f.amount), 0)} :
       /\ SetDB(r.db)
       /\ last' = [f |-> r.f, pre |-> DB, again |-> TRUE, retry |-> FALSE]
  /\ UNCHANGED <<procs, count, settledOk, refused>>
  /\ UNCHANGED saas

NextRedeliver ==
  \/ NextOver(FailInputs)
  \/ Redeliver

SpecRedeliver == Init /\ [][NextRedeliver]_vars

(***************************************************************************)
(* The methods of the house called one after the other, from the empty     *)
(* store, with amounts of 5 and 10.                                        *)
(***************************************************************************)
MaxCalls == 4

CallAmounts == {500, 1000}

HouseCall(kind, amount) ==
  /\ AllIdle
  /\ count.calls < MaxCalls
  /\ Serve(HouseCallFrame(kind, amount), 0)
  /\ count' = [count EXCEPT !.calls = @ + 1]

Payout(amount) == HouseCall("payout", amount)

ReceiveBet(amount) == HouseCall("receiveBet", amount)

AddMembershipFee(amount) == HouseCall("addMembershipFee", amount)

NextHouse ==
  \E amount \in CallAmounts :
     \/ Payout(amount)
     \/ ReceiveBet(amount)
     \/ AddMembershipFee(amount)

SpecHouse == Init /\ [][NextHouse]_vars

(***************************************************************************)
(* One member, requests one after the other, with enough deposits, bets    *)
(* and settle requests for the house to be paid down to less than one      *)
(* payout.                                                                 *)
(***************************************************************************)
LedgerMaxFees == 2
LedgerMaxDeposits == 3
LedgerMaxBets == 3
LedgerMaxSettles == 4

LedgerInputs ==
  [SeqInputs EXCEPT !.users = FewUsers,
                    !.selections = {"A"},
                    !.maxFees = LedgerMaxFees,
                    !.maxDeposits = LedgerMaxDeposits,
                    !.maxBets = LedgerMaxBets,
                    !.maxSettles = LedgerMaxSettles]

NextLedger == NextOver(LedgerInputs)

SpecLedger == Init /\ [][NextLedger]_vars

(***************************************************************************)
(* The methods of the house called by two callers whose store operations   *)
(* interleave.                                                             *)
(***************************************************************************)
StartHouseCall(p, kind, amount) ==
  /\ procs[p].kind = "idle"
  /\ \A q \in Slots : q < p => procs[q].kind # "idle"
  /\ count.calls < MaxCalls
  /\ procs' = [procs EXCEPT ![p] = HouseCallFrame(kind, amount)]
  /\ count' = [count EXCEPT !.calls = @ + 1]
  /\ UNCHANGED <<house, wallets, bets, events, last, settledOk, refused>>
  /\ UNCHANGED saas

NextHouseConc ==
  \/ \E p \in Slots, kind \in {"payout", "receiveBet", "addMembershipFee"},
        amount \in CallAmounts : StartHouseCall(p, kind, amount)
  \/ \E p \in Slots : StepProc(p)
  \/ \E p \in Slots : Return(p)

SpecHouseConc == Init /\ [][NextHouseConc]_vars

(***************************************************************************)
(* Wallet.getBalance called by two requests whose store operations         *)
(* interleave, between the requests of Spec run one after the other.       *)
(***************************************************************************)
MaxGets == 2

StartGetBalance(p, u) ==
  /\ procs[p].kind = "idle"
  /\ \A q \in Slots : q < p => procs[q].kind # "idle"
  /\ count.calls < MaxGets
  /\ procs' = [procs EXCEPT ![p] = GetBalanceFrame(u)]
  /\ count' = [count EXCEPT !.calls = @ + 1]
  /\ UNCHANGED <<house, wallets, bets, events, last, settledOk, refused>>
  /\ UNCHANGED saas

NextLazy ==
  \/ \E p \in Slots, u \in Users : StartGetBalance(p, u)
  \/ \E p \in Slots : StepProc(p)
  \/ \E p \in Slots : Return(p)
  \/ NextOver(FailInputs)

SpecLazy == Init /\ [][NextLazy]_vars

-----------------------------------------------------------------------------
(***************************************************************************)
(* The invoicing services.  Invoice.create runs in the two slots, one      *)
(* store operation at a time; the calls of InvoiceService that read and    *)
(* write the status of an invoice run one after the other.  The limit of   *)
(* the subscription plan that createInvoice asks for first is not part of  *)
(* the model, and no entry of the cache outlives its time to live: every   *)
(* state an expired entry leads to is reached without the entry too.       *)
(***************************************************************************)
ledger ==
  <<house, wallets, bets, events, procs, last, count, settledOk, refused>>

CreateStatuses == {"unpaid", "paid", "overdue"}

\* Invoice.create is called.
StartCreate(p, u, status, due) ==
  /\ creates[p].pc = "idle"
  /\ Len(invoices)
       + Cardinality({q \in Slots : creates[q].pc \in {"find", "insert"}})
     < MaxInvoices
  /\ creates' = [creates EXCEPT ![p] = [pc |-> "find", user |-> u,
                                        number |-> <<>>, status |-> status,
                                        due |-> due]]
  /\ UNCHANGED <<invoices, subscriptions, cache, useMongo, ledger>>

\* _generateInvoiceNumber: the find and the number that follows its answer.
GenerateNumber(p) ==
  /\ creates[p].pc = "find"
  /\ creates' = [creates EXCEPT
                   ![p].number = GenerateInvoiceNumber(invoices,
                                                       creates[p].user),
                   ![p].pc = "insert"]
  /\ UNCHANGED <<invoices, subscriptions, cache, useMongo, ledger>>

\* insertOne; a duplicate key error makes create start again.
InsertOne(p) ==
  /\ creates[p].pc = "insert"
  /\ IF InsertRefused(useMongo, invoices, creates[p].user, creates[p].number)
       THEN /\ creates' = [creates EXCEPT ![p].pc = "find"]
            /\ UNCHANGED invoices
       ELSE /\ invoices' = Append(invoices,
                                  NewInvoice(creates[p].user,
                                             creates[p].number,
                                             creates[p].status,
                                             creates[p].due))
            /\ creates' = [creates EXCEPT ![p].pc = "done"]
  /\ UNCHANGED <<subscriptions, cache, useMongo, ledger>>

\* createInvoice invalidates the caches and returns the invoice.
CreateReturn(p) ==
  /\ creates[p].pc = "done"
  /\ cache' = InvalidateInvoices(cache, invoices, creates[p].user)
  /\ creates' = [creates EXCEPT ![p] = IdleCreate]
  /\ UNCHANGED <<invoices, subscriptions, useMongo, ledger>>

\* InvoiceService.getInvoice: the answer, the status of the invoice it
\* returns and the cache after it.
GetInvoice(c, inv, u, id) ==
  IF id <= Len(inv) /\ inv[id].userId = u /\ c.invoice[id].hit
    THEN [res |-> "ok", status |-> c.invoice[id].status, cache |-> c]
  ELSE IF id > Len(inv)
    THEN [res |-> "NotFoundError", status |-> "", cache |-> c]
  ELSE IF inv[id].userId # u
    THEN [res |-> "AuthorizationError", status |-> "", cache |-> c]
  ELSE [res |-> "ok", status |-> inv[id].status,
        cache |-> [c EXCEPT !.invoice[id] =
                      [hit |-> TRUE, status |-> inv[id].status]]]

\* InvoiceService.markAsPaid
MarkAsPaid(u, id) ==
  /\ LET g == GetInvoice(cache, invoices, u, id)
     IN IF g.res = "ok" /\ CanBePaid(g.status)
          THEN /\ invoices' = InvoiceUpdate(invoices, id, "paid")
               /\ cache' = InvalidateInvoices(g.cache, invoices, u)
          ELSE /\ cache' = g.cache
               /\ UNCHANGED invoices
  /\ UNCHANGED <<subscriptions, creates, useMongo, ledger>>

\* InvoiceService.markAsUnpaid
MarkAsUnpaid(u, id) ==
  /\ LET g == GetInvoice(cache, invoices, u, id)
     IN IF g.res = "ok" /\ g.status # "unpaid"
          THEN /\ invoices' = InvoiceUpdate(invoices, id, "unpaid")
               /\ cache' = InvalidateInvoices(g.cache, invoices, u)
          ELSE /\ cache' = g.cache
               /\ UNCHANGED invoices
  /\ UNCHANGED <<subscriptions, creates, useMongo, ledger>>

\* Invoice.findByUserId(userId, { status }); status "" is no filter.
FindByUserId(inv, u, status) ==
  SelectSeq([k \in 1..Len(inv) |->
               [id |-> k, userId |-> inv[k].userId,
                status |-> inv[k].status, due |-> inv[k].due]],
            LAMBDA d : d.userId = u /\ (status = "" \/ d.status = status))

\* InvoiceService.getInvoices
GetInvoices(u) ==
  /\ ~cache.invoices[u].hit
  /\ cache' = [cache EXCEPT !.invoices[u] =
                 [hit |-> TRUE, docs |-> FindByUserId(invoices, u, "")]]
  /\ UNCHANGED <<invoices, subscriptions, creates, useMongo, ledger>>

\* InvoiceService.processOverdueInvoices; the key of the list getInvoices
\* caches does not hold the options.
ProcessOverdueInvoices(u) ==
  /\ LET docs == IF cache.invoices[u].hit THEN cache.invoices[u].docs
                 ELSE FindByUserId(invoices, u, "unpaid")
         c == [cache EXCEPT !.invoices[u] = [hit |-> TRUE, docs |-> docs]]
         ids == {docs[j].id : j \in
                   {j \in 1..Len(docs) :
                      /\ docs[j].due
                      /\ CanTransitionTo(InvoiceTransitions, docs[j].status,
                                         "overdue")}}
     IN /\ invoices' = [k \in 1..Len(invoices) |->
                          IF k \in ids
                            THEN [invoices[k] EXCEPT !.status = "overdue"]
                            ELSE invoices[k]]
        /\ cache' = IF ids # {} THEN InvalidateInvoices(c, invoices, u)
                    ELSE c
  /\ UNCHANGED <<subscriptions, creates, useMongo, ledger>>

\* The calls of Invoice.create for users, with the statuses and due dates
\* given.
NextCreate(users, statuses, dues) ==
  \/ \E p \in Slots, u \in users, status \in statuses, due \in dues :
        StartCreate(p, u, status, due)
  \/ \E p \in Slots : GenerateNumber(p)
  \/ \E p \in Slots : InsertOne(p)
  \/ \E p \in Slots : CreateReturn(p)

NextNumbering == NextCreate(Users, {"unpaid"}, {FALSE})

SpecNumbering == InitAnyStore /\ [][NextNumbering]_vars

NextInvoice ==
  \/ NextCreate(Users, CreateStatuses, BOOLEAN)
  \/ \E u \in Users, id \in 1..MaxInvoices : MarkAsPaid(u, id)
  \/ \E u \in Users, id \in 1..MaxInvoices : MarkAsUnpaid(u, id)
  \/ \E u \in Users : GetInvoices(u)
  \/ \E u \in Users : ProcessOverdueInvoices(u)

SpecInvoice == Init /\ [][NextInvoice]_vars

-----------------------------------------------------------------------------
(***************************************************************************)
(* services/SubscriptionService.js: its calls run one after the other.     *)
(* stripeOk says whether the request the call makes to Stripe succeeds.    *)
(***************************************************************************)
PaidPlans == {"starter", "pro"}

WebhookTypes ==
  {"checkout.session.completed", "customer.subscription.updated",
   "customer.subscription.deleted", "invoice.payment_failed",
   "invoice.payment_succeeded"}

\* getSubscription: the subscription it returns, and the store and the
\* cache after it.
GetSubscription(c, subs, u) ==
  IF c.subscription[u].hit
    THEN [doc |-> c.subscription[u].doc, subs |-> subs, cache |-> c]
  ELSE LET found == SubscriptionFind(subs, u)
       IN [doc |-> found[u], subs |-> found,
           cache |-> [c EXCEPT !.subscription[u] =
                         [hit |-> TRUE, doc |-> found[u]]]]

UpgradeSubscription(u, plan, paymentMethod, stripeOk) ==
  /\ LET g == GetSubscription(cache, subscriptions, u)
         indexOf(pl) ==
           CHOOSE k \in 1..Len(PlanHierarchy) : PlanHierarchy[k] = pl
     IN IF /\ indexOf(plan) > indexOf(g.doc.plan)
           /\ CanCharge(g.doc.status)
           /\ (paymentMethod => stripeOk)
          THEN /\ subscriptions' =
                    SubscriptionUpgrade(g.subs, u, plan, paymentMethod)
               /\ cache' = InvalidateSubscriptions(g.cache, u)
          ELSE /\ subscriptions' = g.subs
               /\ cache' = g.cache
  /\ UNCHANGED <<invoices, creates, useMongo, ledger>>

\* A failure of Stripe to cancel is logged and the downgrade goes on.
DowngradeSubscription(u) ==
  /\ LET g == GetSubscription(cache, subscriptions, u)
     IN IF g.doc.plan # "free"
          THEN /\ subscriptions' = SubscriptionDowngrade(g.subs, u)
               /\ cache' = InvalidateSubscriptions(g.cache, u)
          ELSE /\ subscriptions' = g.subs
               /\ cache' = g.cache
  /\ UNCHANGED <<invoices, creates, useMongo, ledger>>

CancelSubscription(u, stripeOk) ==
  /\ LET g == GetSubscription(cache, subscriptions, u)
     IN IF /\ CanTransitionTo(SubscriptionTransitions, g.doc.status,
                              "cancelled")
           /\ (g.doc.stripe => stripeOk)
          THEN /\ subscriptions' = SubscriptionCancel(g.subs, u)
               /\ cache' = InvalidateSubscriptions(g.cache, u)
          ELSE /\ subscriptions' = g.subs
               /\ cache' = g.cache
  /\ UNCHANGED <<invoices, creates, useMongo, ledger>>

ReactivateSubscription(u) ==
  /\ LET g == GetSubscription(cache, subscriptions, u)
     IN IF g.doc.status = "cancelled"
          THEN /\ subscriptions' = SubscriptionReactivate(g.subs, u)
               /\ cache' = InvalidateSubscriptions(g.cache, u)
          ELSE /\ subscriptions' = g.subs
               /\ cache' = g.cache
  /\ UNCHANGED <<invoices, creates, useMongo, ledger>>

\* handleStripeWebhook, for an event whose metadata names user u and, for a
\* completed checkout, a paid plan.
HandleStripeWebhook(type, u, plan) ==
  CASE type = "checkout.session.completed" ->
         /\ LET g == GetSubscription(cache, subscriptions, u)
            IN /\ subscriptions' = SubscriptionUpgrade(g.subs, u, plan, TRUE)
               /\ cache' = InvalidateSubscriptions(g.cache, u)
         /\ UNCHANGED <<invoices, creates, useMongo, ledger>>
    [] type = "customer.subscription.updated" ->
         /\ cache' = InvalidateSubscriptions(cache, u)
         /\ UNCHANGED <<invoices, subscriptions, creates, useMongo, ledger>>
    [] type = "customer.subscription.deleted" -> DowngradeSubscription(u)
    [] type = "invoice.payment_failed" ->
         /\ LET g == GetSubscription(cache, subscriptions, u)
            IN IF CanTransitionTo(SubscriptionTransitions, g.doc.status,
                                  "past_due")
                 THEN /\ subscriptions' =
                           SubscriptionSetStatus(g.subs, u, "past_due")
                      /\ cache' = InvalidateSubscriptions(g.cache, u)
                 ELSE /\ subscriptions' = g.subs
                      /\ cache' = g.cache
         /\ UNCHANGED <<invoices, creates, useMongo, ledger>>
    [] type = "invoice.payment_succeeded" ->
         /\ LET g == GetSubscription(cache, subscriptions, u)
            IN IF g.doc.status = "past_due"
                 THEN /\ subscriptions' =
                           SubscriptionSetStatus(g.subs, u, "active")
                      /\ cache' = InvalidateSubscriptions(g.cache, u)
                 ELSE /\ subscriptions' = g.subs
                      /\ cache' = g.cache
         /\ UNCHANGED <<invoices, creates, useMongo, ledger>>

NextSubscription ==
  \/ \E u \in Users, plan \in PaidPlans, paymentMethod, stripeOk \in BOOLEAN :
        UpgradeSubscription(u, plan, paymentMethod, stripeOk)
  \/ \E u \in Users : DowngradeSubscription(u)
  \/ \E u \in Users, stripeOk \in BOOLEAN : CancelSubscription(u, stripeOk)
  \/ \E u \in Users : ReactivateSubscription(u)
  \/ \E type \in WebhookTypes, u \in Users, plan \in PaidPlans :
        HandleStripeWebhook(type, u, plan)

SpecSubscription == Init /\ [][NextSubscription]_vars

-----------------------------------------------------------------------------
(***************************************************************************)
(* Properties.                                                             *)
(***************************************************************************)
HouseBalance(h) == IF Len(h) = 0 THEN 0 ELSE h[1].balance

LastSettle(res) == last.f.kind = "settle" /\ last.f.res = res

RECURSIVE WinSum(_, _, _, _, _)
\* The sum of potentialWin over the bets b[k..] of user u on event e whose
\* selection is winner.
WinSum(b, k, e, winner, u) ==
  IF k > Len(b) THEN 0
  ELSE (IF b[k].eventId = e /\ b[k].selection = winner /\ b[k].userId = u
          THEN b[k].potentialWin ELSE 0)
       + WinSum(b, k + 1, e, winner, u)

\* C1: with requests run one after the other, the balance of the house
\* bankroll is never negative.
C1_Solvency == \A k \in 1..Len(house) : house[k].balance >= 0

C1_Witness ==
  /\ LastSettle("ok")
  /\ last.f.totalPayout > 0
  /\ HouseBalance(house) = HouseBalance(last.pre.house) - last.f.totalPayout

\* C2: with requests run one after the other, no wallet balance is ever
\* negative.
C2_NonNegativeWallets == \A u \in Users : wallets[u].balance >= 0

\* C3: a settle request refused because the winners' total potentialWin
\* exceeds the house balance has changed no bet, no wallet and nothing of
\* the house bankroll.
C3_GateRefusalNoOp ==
  LastSettle("InsufficientHouseFunds") =>
    /\ bets = last.pre.bets
    /\ house = last.pre.house
    /\ wallets = last.pre.wallets

C3_Witness ==
  /\ LastSettle("InsufficientHouseFunds")
  /\ last.f.winners # <<>>
  /\ last.f.totalPayout > HouseBalance(house)
  /\ events[last.f.event].status = "finished"

\* C4: once a settle request on an event has succeeded, every further
\* settle request on that event is rejected with EventAlreadySettled and
\* changes no bet, no wallet and nothing of the house bankroll.
C4_DoubleSettleRejected ==
  (last.f.kind = "settle" /\ last.again) =>
    /\ last.f.res = "EventAlreadySettled"
    /\ bets = last.pre.bets
    /\ house = last.pre.house
    /\ wallets = last.pre.wallets

\* C5: after a successful settle request the house balance is the balance
\* before minus totalPayout, in the response and in the store, totalPayout
\* is the sum of potentialWin over the winning bets, and the wallet of each
\* user has grown by the sum of potentialWin of that user's winning bets.
C5_Conservation ==
  LastSettle("ok") =>
    /\ last.f.before = HouseBalance(last.pre.house)
    /\ last.f.after = last.f.before - last.f.totalPayout
    /\ HouseBalance(house) = last.f.after
    /\ \A u \in Users :
         wallets[u].balance =
           last.pre.wallets[u].balance
             + WinSum(last.pre.bets, 1, last.f.event, last.f.sel, u)

C5_Witness ==
  /\ LastSettle("ok")
  /\ \E u, v \in Users :
       /\ u # v
       /\ WinSum(last.pre.bets, 1, last.f.event, last.f.sel, u) > 0
       /\ WinSum(last.pre.bets, 1, last.f.event, last.f.sel, v) > 0
       /\ wallets[u].balance > last.pre.wallets[u].balance
       /\ wallets[v].balance > last.pre.wallets[v].balance

\* C6: when a store operation of a settle request fails after the check
\* of the house balance has passed, then at the response either every bet
\* of the event is won or lost and the house has been debited totalPayout,
\* or no bet, no wallet and nothing of the house has changed.
C6_AllOrNothing ==
  (LastSettle("StoreError")
     /\ SettlePlan[last.f.k] \in {"winners", "losers", "final"}) =>
    \/ /\ \A k \in 1..Len(bets) :
            bets[k].eventId = last.f.event => bets[k].status \in {"won", "lost"}
       /\ HouseBalance(house)
            = HouseBalance(last.pre.house) - last.f.totalPayout
    \/ /\ bets = last.pre.bets
       /\ house = last.pre.house
       /\ wallets = last.pre.wallets

\* C7: under any interleaving of the store operations of two settle
\* requests on different events, a payout is applied only against a balance
\* of at least its amount: no decrement of the house balance leaves it
\* negative.
C7_PayoutAtomic ==
  [][(/\ \A p \in Slots : procs[p].kind = "settle"
      /\ \A p, q \in Slots : p # q => procs[p].event # procs[q].event
      /\ HouseBalance(house') < HouseBalance(house))
       => HouseBalance(house') >= 0]_vars

\* C8: under any interleaving of the store operations of two bet
\* placements of one user, a debit is applied only against a balance of at
\* least the stake: no decrement of a wallet leaves it negative.
C8_DebitAtomic ==
  [][\A u \in Users :
       wallets'[u].balance < wallets[u].balance => wallets'[u].balance >= 0]_vars

\* C9: under any interleaving of a bet placement and a settle request, a
\* bet record is inserted only while its event is upcoming.
C9_CreatedWhileUpcoming ==
  [][Len(bets') > Len(bets) =>
       events[bets'[Len(bets')].eventId].status = "upcoming"]_vars

\* C10: the status of a bet changes only from active, to won or to lost;
\* a bet that is won or lost keeps its status.
C10_StatusOnce ==
  [][\A k \in 1..Len(bets) :
       bets'[k].status # bets[k].status =>
         bets[k].status = "active" /\ bets'[k].status \in {"won", "lost"}]_vars

\* C11: after a settle request on an upcoming event is refused because the
\* winners' total potentialWin exceeds the house balance, the event is as it
\* was: its status is upcoming and it has no winner.
C11_EventOpenAfterRefusal ==
  (LastSettle("InsufficientHouseFunds")
     /\ last.pre.events[last.f.event].status = "upcoming") =>
    /\ events[last.f.event].status = "upcoming"
    /\ events[last.f.event].winner = NoSel

LastPlace(res) == last.f.kind = "place" /\ last.f.res = res

\* The house balance a bet placement run on its own reads in its checks:
\* the balance before the request, 0 when the bankroll is created by it.
BalanceRead == HouseBalance(last.pre.house)

\* C12: for a house balance B >= 0 and odds o > 1, calculateMaxBet(o) is
\* max(5, q), where q is floor(0.10 * B / (o - 1)): the integer with
\* q * (o - 1) <= 0.10 * B < (q + 1) * (o - 1).  With B in cents and o in
\* hundredths that is q * 10 * (o - 100) <= B < (q + 1) * 10 * (o - 100).
C12_CapFormula ==
  (last.f.kind = "place" /\ last.f.maxBet.kind # "none"
     /\ last.f.odds > 100 /\ BalanceRead >= 0) =>
    /\ last.f.maxBet.kind = "num"
    /\ \E q \in 0..BalanceRead :
         /\ q * 10 * (last.f.odds - 100) <= BalanceRead
         /\ BalanceRead < (q + 1) * 10 * (last.f.odds - 100)
         /\ last.f.maxBet.v = IF q > 5 THEN q ELSE 5

C12_Witness ==
  /\ last.f.kind = "place"
  /\ last.f.maxBet.kind = "num"
  /\ last.f.maxBet.v > 5
  /\ last.f.odds > 100
  /\ last.f.odds # 200

\* C13: for every bet a placement admits, the net risk of the house,
\* amount * (odds - 1), is at most 10% of the house balance read by the
\* placement.  In cents and hundredths: amount * (odds - 100) <= 10 * B.
C13_ExposureBound ==
  LastPlace("ok") =>
    last.f.amount * (last.f.odds - 100) <= 10 * BalanceRead

C15_RejectionOrder ==
  (last.f.kind = "place"
     /\ last.pre.wallets[last.f.user].membershipPaid
     /\ last.pre.events[last.f.event].exists) =>
    /\ last.f.amount < 500 => last.f.res = "MinimumBetViolation"
    /\ (last.f.amount >= 500
          /\ last.pre.events[last.f.event].status # "upcoming")
         => last.f.res = "EventNotOpen"

C17_OddsValid ==
  /\ \A k \in 1..Len(bets) : bets[k].odds > 100
  /\ (last.f.kind = "place" /\ last.f.odds <= 100) =>
       /\ last.f.res # "ok"
       /\ bets = last.pre.bets
       /\ \A u \in Users : wallets[u].balance = last.pre.wallets[u].balance
       /\ HouseBalance(house) = HouseBalance(last.pre.house)

\* C18: the user of every bet in the store has a wallet with membershipPaid
\* set; a placement by a user without it is rejected and changes no bet,
\* nothing of the house and no wallet, except that the wallet of that user
\* is created, empty, if there was none.
C18_MembershipGate ==
  /\ \A k \in 1..Len(bets) : wallets[bets[k].userId].membershipPaid
  /\ (last.f.kind = "place"
        /\ ~last.pre.wallets[last.f.user].membershipPaid) =>
       /\ last.f.res = "MembershipNotActive"
       /\ bets = last.pre.bets
       /\ house = last.pre.house
       /\ \A u \in Users \ {last.f.user} : wallets[u] = last.pre.wallets[u]
       /\ wallets[last.f.user].exists
       /\ wallets[last.f.user].balance = last.pre.wallets[last.f.user].balance
       /\ ~wallets[last.f.user].membershipPaid

C18_Witness ==
  /\ LastPlace("MembershipNotActive")
  /\ Len(bets) > 0
  /\ ~last.pre.wallets[last.f.user].exists
  /\ wallets[last.f.user].exists
  /\ \E u \in Users : wallets[u].membershipPaid

\* C19: when Wallet.deductFunds rejects a placement for an insufficient
\* balance, the house has not been credited, no bet has been created and
\* the wallet balance is as it was.
C19_DebitFailureAborts ==
  LastPlace("InsufficientFunds") =>
    /\ house = last.pre.house
    /\ bets = last.pre.bets
    /\ wallets = last.pre.wallets

C19_Witness ==
  /\ LastPlace("InsufficientFunds")
  /\ last.f.amount >= 500
  /\ wallets[last.f.user].balance < last.f.amount
  /\ last.f.maxBet.kind = "num"
  /\ HouseBalance(house) > 0

\* C20: when a placement returns, also after a failure of the store,
\* either the wallet was debited by the amount, the house credited by the
\* amount and one bet created, or none of the three happened.
C20_PlacementUnit ==
  last.f.kind = "place" =>
    \/ /\ wallets[last.f.user].balance
            = last.pre.wallets[last.f.user].balance - last.f.amount
       /\ HouseBalance(house) = HouseBalance(last.pre.house) + last.f.amount
       /\ Len(bets) = Len(last.pre.bets) + 1
    \/ /\ wallets[last.f.user].balance = last.pre.wallets[last.f.user].balance
       /\ HouseBalance(house) = HouseBalance(last.pre.house)
       /\ bets = last.pre.bets

\* C21: an accepted placement takes the amount from the wallet of the
\* user, adds it to the balance and to totalBetsReceived of the house and
\* appends one bet, active, with potentialWin = amount * odds; with a house
\* balance of 100 a bet of 10 at odds 2 by a member with the funds on an
\* upcoming event is accepted and the balance becomes 110.
C21_AcceptedBetEffect ==
  /\ LastPlace("ok") =>
       /\ wallets[last.f.user].balance
            = last.pre.wallets[last.f.user].balance - last.f.amount
       /\ \A u \in Users \ {last.f.user} : wallets[u] = last.pre.wallets[u]
       /\ Len(house) = 1
       /\ house[1].balance = HouseBalance(last.pre.house) + last.f.amount
       /\ house[1].totalBetsReceived
            = last.pre.house[1].totalBetsReceived + last.f.amount
       /\ last.f.after = house[1].balance
       /\ Len(bets) = Len(last.pre.bets) + 1
       /\ SubSeq(bets, 1, Len(last.pre.bets)) = last.pre.bets
       /\ bets[Len(bets)].status = "active"
       /\ bets[Len(bets)].userId = last.f.user
       /\ bets[Len(bets)].eventId = last.f.event
       /\ bets[Len(bets)].amount = last.f.amount
       /\ bets[Len(bets)].odds = last.f.odds
       /\ bets[Len(bets)].potentialWin * 100 = last.f.amount * last.f.odds
  /\ (last.f.kind = "place" /\ last.f.amount = 1000 /\ last.f.odds = 200
        /\ BalanceRead = 10000
        /\ last.pre.wallets[last.f.user].membershipPaid
        /\ last.pre.wallets[last.f.user].balance >= 1000
        /\ last.pre.events[last.f.event].status = "upcoming") =>
       /\ last.f.res = "ok"
       /\ HouseBalance(house) = 11000

C21_Witness ==
  /\ LastPlace("ok")
  /\ last.f.amount = 1000
  /\ last.f.odds = 200
  /\ BalanceRead = 10000
  /\ HouseBalance(house) = 11000
  /\ bets[Len(bets)].potentialWin = 2000

\* The placement of Scenario A: a member with the funds stakes 15 at odds
\* 2 on an upcoming event while the house balance is 30.
ScenarioA ==
  /\ last.f.kind = "place"
  /\ last.f.amount = 1500
  /\ last.f.odds = 200
  /\ BalanceRead = 3000
  /\ last.pre.wallets[last.f.user].membershipPaid
  /\ last.pre.wallets[last.f.user].balance >= 1500
  /\ last.pre.events[last.f.event].status = "upcoming"

Unchanged ==
  /\ house = last.pre.house
  /\ wallets = last.pre.wallets
  /\ bets = last.pre.bets
  /\ events = last.pre.events

C24_IdempotentCredits ==
  (last.f.kind \in {"membership", "deposit"} /\ last.again) =>
    /\ house = last.pre.house
    /\ \A u \in Users : wallets[u].balance = last.pre.wallets[u].balance

\* The bankroll record a method of the house called on its own works on:
\* the record in the store, or the one initialize() inserts.
RecordBefore ==
  IF Len(last.pre.house) = 0 THEN NewBankroll ELSE last.pre.house[1]

\* C25: House.payout(amount) fails and leaves the bankroll record as it was
\* when balance < amount; otherwise it takes amount from balance and from
\* profit, adds it to totalPayouts and leaves totalMembershipRevenue and
\* totalBetsReceived as they were.
C25_PayoutContract ==
  last.f.kind = "payout" =>
    /\ Len(house) = 1
    /\ IF RecordBefore.balance < last.f.amount
         THEN last.f.res = "PayoutRejected" /\ house[1] = RecordBefore
         ELSE /\ last.f.res = "ok"
              /\ house[1].balance = RecordBefore.balance - last.f.amount
              /\ house[1].totalPayouts
                   = RecordBefore.totalPayouts + last.f.amount
              /\ house[1].profit = RecordBefore.profit - last.f.amount
              /\ house[1].totalMembershipRevenue
                   = RecordBefore.totalMembershipRevenue
              /\ house[1].totalBetsReceived = RecordBefore.totalBetsReceived

C25_Witness ==
  /\ last.f.kind = "payout"
  /\ last.f.res = "ok"
  /\ RecordBefore.balance = last.f.amount
  /\ house[1].balance = 0
  /\ house[1].totalPayouts > last.f.amount

\* C26: House.receiveBet(amount) adds amount to balance and to
\* totalBetsReceived and leaves profit, totalMembershipRevenue and
\* totalPayouts as they were.
C26_ReceiveBetFrame ==
  last.f.kind = "receiveBet" =>
    /\ last.f.res = "ok"
    /\ Len(house) = 1
    /\ house[1].balance = RecordBefore.balance + last.f.amount
    /\ house[1].totalBetsReceived
         = RecordBefore.totalBetsReceived + last.f.amount
    /\ house[1].profit = RecordBefore.profit
    /\ house[1].totalMembershipRevenue = RecordBefore.totalMembershipRevenue
    /\ house[1].totalPayouts = RecordBefore.totalPayouts

C26_Witness ==
  /\ last.f.kind = "receiveBet"
  /\ RecordBefore.profit # 0
  /\ RecordBefore.totalPayouts > 0
  /\ house[1].totalBetsReceived > last.f.amount

\* C27: in every state of the house bankroll, profit is
\* totalMembershipRevenue + totalBetsReceived - totalPayouts.
C27_ProfitIdentity ==
  \A k \in 1..Len(house) :
     house[k].profit
       = house[k].totalMembershipRevenue + house[k].totalBetsReceived
           - house[k].totalPayouts

\* C28: from the empty store, under any interleaving of the store
\* operations of two requests, the house store holds at most one bankroll
\* record.
C28_SingleBankroll == Len(house) <= 1

\* C29: Wallet.getBalance answers, and answers 0 for a user with no wallet
\* yet, also when the store operations of two calls for that user
\* interleave: no call ends in an error.
C29_LazyWallet ==
  \A p \in Slots :
     (procs[p].kind = "getBalance" /\ procs[p].pc = "done") =>
       /\ procs[p].res = "ok"
       /\ procs[p].after = wallets[procs[p].user].balance

\* C30: a settle request on an event id no event has is answered
\* EventNotFound and changes no bet, no wallet, no event and nothing of the
\* house.
C30_SettleUnknownEvent ==
  (last.f.kind = "settle" /\ ~last.pre.events[last.f.event].exists) =>
    (last.f.res = "EventNotFound" /\ Unchanged)

\* C31: no step changes the userId, eventId, selection, amount, odds or
\* potentialWin of a bet that already exists, and no step removes a bet;
\* only status and settledAt of an existing bet are ever written.
C31_BetImmutable ==
  [][/\ Len(bets') >= Len(bets)
     /\ \A k \in 1..Len(bets) :
          /\ bets'[k].userId = bets[k].userId
          /\ bets'[k].eventId = bets[k].eventId
          /\ bets'[k].selection = bets[k].selection
          /\ bets'[k].amount = bets[k].amount
          /\ bets'[k].odds = bets[k].odds
          /\ bets'[k].potentialWin = bets[k].potentialWin]_vars

\* A settlement has written a bet, and a later bet was placed after it.
C31_Witness ==
  /\ last.f.kind = "settle"
  /\ last.f.res = "ok"
  /\ \E k \in 1..Len(bets) :
       /\ bets[k].status \in {"won", "lost"}
       /\ last.pre.bets[k].status = "active"

\* C32: with a house balance of 10 and a member's wallet of 50, a stake of
\* 20 at odds 2 on an upcoming event is accepted and leaves the wallet at 30
\* and the house balance at 30.
C32_BootstrapFlow ==
  (/\ last.f.kind = "place"
   /\ last.f.amount = 2000
   /\ last.f.odds = 200
   /\ BalanceRead = 1000
   /\ last.pre.wallets[last.f.user].membershipPaid
   /\ last.pre.wallets[last.f.user].balance = 5000
   /\ last.pre.events[last.f.event].status = "upcoming") =>
    /\ last.f.res = "ok"
    /\ wallets[last.f.user].balance = 3000
    /\ HouseBalance(house) = 3000

\* C33: under any interleaving of the store operations of two
\* Invoice.create calls, no two stored invoices of one user carry the same
\* invoiceNumber.
C33_UniqueInvoiceNumbers ==
  \A k, m \in 1..Len(invoices) :
     (k # m /\ invoices[k].userId = invoices[m].userId) =>
       invoices[k].invoiceNumber # invoices[m].invoiceNumber

\* C34: every change InvoiceService makes to the status of an invoice is an
\* edge of InvoiceStateMachine.TRANSITIONS: a paid invoice only ever becomes
\* refunded, a cancelled or refunded one never changes.
C34_StatusEdges ==
  [][\A k \in 1..Len(invoices) :
       invoices'[k].status # invoices[k].status =>
         CanTransitionTo(InvoiceTransitions, invoices[k].status,
                         invoices'[k].status)]_vars

\* C39: once the status of a subscription is cancelled, no call of
\* SubscriptionService changes it to another value.
C39_CancelledTerminal ==
  [][\A u \in Users :
       subscriptions[u].status = "cancelled" =>
         subscriptions'[u].status = "cancelled"]_vars

\* C35: in every state, under any interleaving of the store operations of
\* addMembershipFee, receiveBet and payout calls, the balance of a bankroll
\* record is its totalMembershipRevenue plus its totalBetsReceived minus
\* its totalPayouts.
C35_BalanceIdentity ==
  \A k \in 1..Len(house) :
     house[k].balance =
       house[k].totalMembershipRevenue + house[k].totalBetsReceived
         - house[k].totalPayouts

\* A payout has just been made while another call is between two of its
\* store operations, on a record that has received fees and stakes.
C35_Witness ==
  /\ \E p, q \in Slots :
       /\ procs[p].kind = "payout" /\ procs[p].pc = "done"
       /\ procs[p].res = "ok"
       /\ procs[q].kind \in {"receiveBet", "addMembershipFee"}
       /\ procs[q].pc # "done"
  /\ Len(house) >= 1
  /\ house[1].totalMembershipRevenue > 0
  /\ house[1].totalBetsReceived > 0
  /\ house[1].totalPayouts > 0

RECURSIVE WalletTotal(_, _)
\* The sum of the balances of the wallets of the users in S.
WalletTotal(w, S) ==
  IF S = {} THEN 0
  ELSE LET u == CHOOSE u \in S : TRUE
       IN w[u].balance + WalletTotal(w, S \ {u})

\* Every deposit is of the one amount of DepositAmounts.
Deposited == count.dep * (CHOOSE d \in DepositAmounts : TRUE)

\* C36: in every state reached by deposits, membership payments, PlaceBet
\* and Settle requests run one after the other without store failure, the
\* wallet balances and the house balance add up to the deposits plus the
\* membership fees received.
C36_MoneyConservation ==
  WalletTotal(wallets, Users) + HouseBalance(house)
    = Deposited + count.fee * MEMBERSHIP_FEE

\* What settle requests have added to the wallets: what the wallets hold,
\* less the deposits (each of the one amount of ConcInputs), plus the
\* stakes the wallets have paid, which are the stakes the house received.
SettlementCredits ==
  WalletTotal(wallets, Users)
    - count.dep * (CHOOSE d \in ConcInputs.deposits : TRUE)
    + (IF Len(house) = 0 THEN 0 ELSE house[1].totalBetsReceived)

\* C37: under any interleaving of the store operations of settle requests,
\* whenever every request has returned, what settle requests have added to
\* the wallets is the totalPayouts of the house: no wallet is credited
\* without the house being debited the same amount.
C37_CreditsMatchDebits ==
  AllIdle =>
    SettlementCredits = (IF Len(house) = 0 THEN 0 ELSE house[1].totalPayouts)

\* C38: a PlaceBet request with a positive amount and positive odds made
\* while the house balance is 0 is rejected, stores no bet and leaves the
\* house as it was, and whenever a bet exists a membership fee has been
\* credited before.
C38_NoBetOnEmptyBankroll ==
  /\ (last.f.kind = "place" /\ BalanceRead = 0
        /\ last.f.amount > 0 /\ last.f.odds > 0) =>
       (last.f.res # "ok" /\ bets = last.pre.bets /\ house = last.pre.house)
  /\ Len(bets) > 0 => count.fee > 0

\* A member with the funds stakes on an upcoming event after settlement
\* has paid the house down to 0, and the coverage guard rejects the bet.
C38_Witness ==
  /\ last.f.kind = "place"
  /\ BalanceRead = 0
  /\ Len(last.pre.house) = 1
  /\ Len(bets) > 0
  /\ last.pre.wallets[last.f.user].membershipPaid
  /\ last.pre.wallets[last.f.user].balance >= last.f.amount
  /\ last.pre.events[last.f.event].status = "upcoming"
  /\ last.f.res = "InsufficientHouseCoverage"

=============================================================================
